---- MODULE Spec2Model ----
(***************************************************************************)
(* Model of the disk-imaging and installation engine of metal-hammer       *)
(* (package cmd): the default disk layout and its init(), the mount-order  *)
(* computation Disk.SortByMountPoint, and the pipeline                     *)
(*   Install = partition -> mountPartitions -> pull -> burn -> install,    *)
(* and the long-poll loop Hammer.Wait.                                     *)
(*                                                                         *)
(* Text is modelled in two ways: values that are only compared or          *)
(* concatenated are TLA+ strings; values the code parses (the assigned     *)
(* network specification) are sequences of one-character strings, so that  *)
(* parsing and formatting are computed and not assumed.                    *)
(***************************************************************************)
EXTENDS Integers, Sequences, FiniteSets, TLC

\* ------------------------------------------------------------------ bounds
\* largest number of partitions of a layout handed to SortByMountPoint
MaxParts == 3
\* largest number of SSH public keys of an assignment
MaxKeys == 2

\* ------------------------------------------------------------ text helpers
NoErr == "nil"
None == "none"

RECURSIVE Text(_)
\* the string spelled by a sequence of one-character strings
Text(cs) == IF cs = <<>> THEN "" ELSE Head(cs) \o Text(Tail(cs))

DigitChars == <<"0", "1", "2", "3", "4", "5", "6", "7", "8", "9">>

RECURSIVE FormatInt(_)
\* fmt.Sprintf("%d", n) for n >= 0
FormatInt(n) == IF n < 10 THEN DigitChars[n + 1]
                ELSE FormatInt(n \div 10) \o DigitChars[(n % 10) + 1]

RECURSIVE JoinStrings(_, _)
\* strings.Join(elems, sep)
JoinStrings(elems, sep) ==
    IF elems = <<>> THEN ""
    ELSE IF Len(elems) = 1 THEN elems[1]
    ELSE elems[1] \o sep \o JoinStrings(Tail(elems), sep)

\* ------------------------------------------------------------- disk layout
prefix == "/rootfs"
osImageDestination == "/tmp/os.tgz"

\* the package variable defaultDisk as declared, before init() has run
defaultDisk ==
    [Device |-> "/dev/sda",
     Partitions |-> <<
        [Label |-> "efi", Device |-> "", Number |-> 1,
         MountPoint |-> "/boot/efi", Filesystem |-> "vfat", Size |-> 300],
        [Label |-> "root", Device |-> "", Number |-> 2,
         MountPoint |-> "/", Filesystem |-> "ext4", Size |-> -1] >>]

\* p.Device = fmt.Sprintf("%s%d", defaultDisk.Device, p.Number): a device
\* path that drops the partition number
initDevice_NoNumber(d, p) == [p EXCEPT !.Device = d.Device]

\* p.Device = fmt.Sprintf("%s%d", defaultDisk.Device, p.Number)
initDevice(d, p) == [p EXCEPT !.Device = d.Device \o FormatInt(p.Number)]

\* init(): set the calculated Device of every partition
initDisk(d) ==
    [d EXCEPT !.Partitions =
        [i \in 1..Len(d.Partitions) |-> initDevice(d, d.Partitions[i])]]

IsRoot(p) == p.MountPoint = "/"
NotRoot(p) == p.MountPoint # "/"

\* the two loops in the opposite order: "/" is appended last
SortByMountPoint_RootLast(parts) ==
    SelectSeq(parts, NotRoot) \o SelectSeq(parts, IsRoot)

\* Disk.SortByMountPoint: first every partition mounted at "/", then every
\* other partition, each loop in declaration order
SortByMountPoint(parts) ==
    SelectSeq(parts, IsRoot) \o SelectSeq(parts, NotRoot)

\* --------------------------------------------- network specification text
\* index of the first occurrence of character c in cs, 0 when there is none
IndexByte(cs, c) ==
    IF \E i \in 1..Len(cs) : cs[i] = c
    THEN CHOOSE i \in 1..Len(cs) : cs[i] = c /\ \A j \in 1..(i - 1) : cs[j] # c
    ELSE 0

IsDigit(c) == \E d \in 1..10 : DigitChars[d] = c
DigitVal(c) == (CHOOSE d \in 1..10 : DigitChars[d] = c) - 1

RECURSIVE DecimalValue(_)
\* value of a non-empty sequence of digits
DecimalValue(cs) ==
    IF Len(cs) = 1 THEN DigitVal(cs[1])
    ELSE DecimalValue(SubSeq(cs, 1, Len(cs) - 1)) * 10 + DigitVal(cs[Len(cs)])

\* net.dtoi over the whole text: -1 when the text is empty or is not all digits
Dtoi(cs) ==
    IF cs # <<>> /\ \A i \in 1..Len(cs) : IsDigit(cs[i])
    THEN DecimalValue(cs) ELSE -1

RECURSIVE SplitDots(_)
\* the fields of cs separated by "."
SplitDots(cs) ==
    LET SplitAt(i) ==
            IF i = 0 THEN <<cs>>
            ELSE <<SubSeq(cs, 1, i - 1)>> \o SplitDots(SubSeq(cs, i + 1, Len(cs)))
    IN  SplitAt(IndexByte(cs, "."))

\* one field of a dotted-decimal address: 0..255, no leading zero; else -1
ParseOctet(cs) ==
    IF Len(cs) > 1 /\ cs[1] = "0" THEN -1
    ELSE IF Len(cs) > 3 THEN -1
    ELSE IF Dtoi(cs) > 255 THEN -1
    ELSE Dtoi(cs)

\* net.parseIPv4: four dotted decimal fields; <<>> when malformed
ParseIPv4(cs) ==
    LET Octets(fields) ==
            IF Len(fields) = 4 /\ \A i \in 1..4 : ParseOctet(fields[i]) >= 0
            THEN [i \in 1..4 |-> ParseOctet(fields[i])]
            ELSE <<>>
    IN  Octets(SplitDots(cs))

\* net.ParseCIDR for IPv4 text "a.b.c.d/n": the address and whether it failed
ParseCIDR(cs) ==
    LET Parsed(ip, n) ==
            IF ip = <<>> \/ n < 0 \/ n > 32
            THEN [err |-> TRUE, ip |-> <<>>]
            ELSE [err |-> FALSE, ip |-> ip]
        ParseAt(i) ==
            IF i = 0 THEN [err |-> TRUE, ip |-> <<>>]
            ELSE Parsed(ParseIPv4(SubSeq(cs, 1, i - 1)),
                        Dtoi(SubSeq(cs, i + 1, Len(cs))))
    IN  ParseAt(IndexByte(cs, "/"))

\* net.IP.String for an IPv4 address
IPString(ip) == JoinStrings([i \in 1..4 |-> FormatInt(ip[i])], ".")

\* the AS number of an address: its four bytes read as one number
ASNOfAddress(ip) == ((ip[1] * 256 + ip[2]) * 256 + ip[3]) * 256 + ip[4]

\* ipToASN(cidr): parses the network specification and derives the AS number
\* from its address; asnFails is the derivation reporting an error
ipToASN(cidr, asnFails) ==
    LET Derived(p) ==
            IF p.err \/ asnFails THEN [err |-> TRUE, asn |-> -1]
            ELSE [err |-> FALSE, asn |-> ASNOfAddress(p.ip)]
    IN  Derived(ParseCIDR(cidr))

\* ------------------------------------------------------ installer config
Event(op, arg) == [op |-> op, arg |-> arg]

\* lines 439-454 with the address kept as assigned: the mask is not cut off
resolveAddress_KeepsMask(dev, asnFails) ==
    LET parse  == Event("net.ParseCIDR", Text(dev.Cidr))
        derive == Event("ipToASN", Text(dev.Cidr))
        Derived(p, a) ==
            IF a.err
            THEN [err |-> "unable to parse ip from device.ip",
                  ipaddress |-> "", asn |-> a.asn, ev |-> <<parse, derive>>]
            ELSE [err |-> NoErr, ipaddress |-> Text(dev.Cidr),
                  asn |-> a.asn, ev |-> <<parse, derive>>]
        Parsed(p) ==
            IF p.err
            THEN [err |-> "unable to parse ip from device.ip",
                  ipaddress |-> "", asn |-> 0, ev |-> <<parse>>]
            ELSE Derived(p, ipToASN(dev.Cidr, asnFails))
    IN  IF Text(dev.Cidr) = "dhcp"
        THEN [err |-> NoErr, ipaddress |-> Text(dev.Cidr), asn |-> 0,
              ev |-> <<>>]
        ELSE Parsed(ParseCIDR(dev.Cidr))

\* lines 439-454 without the "dhcp" branch: every address is parsed
resolveAddress_NoDhcp(dev, asnFails) ==
    LET parse  == Event("net.ParseCIDR", Text(dev.Cidr))
        derive == Event("ipToASN", Text(dev.Cidr))
        Derived(p, a) ==
            IF a.err
            THEN [err |-> "unable to parse ip from device.ip",
                  ipaddress |-> "", asn |-> a.asn, ev |-> <<parse, derive>>]
            ELSE [err |-> NoErr, ipaddress |-> IPString(p.ip),
                  asn |-> a.asn, ev |-> <<parse, derive>>]
        Parsed(p) ==
            IF p.err
            THEN [err |-> "unable to parse ip from device.ip",
                  ipaddress |-> "", asn |-> 0, ev |-> <<parse>>]
            ELSE Derived(p, ipToASN(dev.Cidr, asnFails))
    IN  Parsed(ParseCIDR(dev.Cidr))

\* writeInstallerConfig, lines 439-454: ipaddress and asn of the assignment.
\* Parsed(p) is the code after net.ParseCIDR returned p, Derived(p, a) the
\* code after ipToASN returned a.
resolveAddress(dev, asnFails) ==
    LET parse  == Event("net.ParseCIDR", Text(dev.Cidr))
        derive == Event("ipToASN", Text(dev.Cidr))
        Derived(p, a) ==
            IF a.err
            THEN [err |-> "unable to parse ip from device.ip",
                  ipaddress |-> "", asn |-> a.asn, ev |-> <<parse, derive>>]
            ELSE [err |-> NoErr, ipaddress |-> IPString(p.ip),
                  asn |-> a.asn, ev |-> <<parse, derive>>]
        Parsed(p) ==
            IF p.err
            THEN [err |-> "unable to parse ip from device.ip",
                  ipaddress |-> "", asn |-> 0, ev |-> <<parse>>]
            ELSE Derived(p, ipToASN(dev.Cidr, asnFails))
    IN  IF Text(dev.Cidr) = "dhcp"
        THEN [err |-> NoErr, ipaddress |-> Text(dev.Cidr), asn |-> 0,
              ev |-> <<>>]
        ELSE Parsed(ParseCIDR(dev.Cidr))

\* writeInstallerConfig, lines 457-463: the InstallerConfig value y
installerConfig(dev, ipaddress, asn) ==
    [Hostname     |-> dev.Hostname,
     SSHPublicKey |-> JoinStrings(dev.SSHPubKeys, "\n"),
     IPAddress    |-> ipaddress,
     ASN          |-> FormatInt(asn)]

\* writeInstallerConfig(device). e.mkdirOK, e.writeOK: whether os.MkdirAll
\* and ioutil.WriteFile succeed; e.asnFails: whether ipToASN reports an error.
\* y is the config built (<<>> when none was), file what install.yaml holds.
\* Resolved(r) is the code after lines 439-454 gave r, Built(r, y) the code
\* after the config y was built.
writeInstallerConfig(dev, e) ==
    LET mkdir == Event("os.MkdirAll", "/rootfs/etc/metal")
        write == Event("ioutil.WriteFile", "/rootfs/etc/metal/install.yaml")
        Built(r, y) ==
            [err  |-> IF e.writeOK THEN NoErr ELSE "write of install.yaml failed",
             y    |-> <<y>>,
             file |-> IF e.writeOK THEN <<y>> ELSE <<>>,
             ev   |-> <<mkdir>> \o r.ev \o <<write>>]
        Resolved(r) ==
            IF r.err # NoErr
            THEN [err |-> r.err, y |-> <<>>, file |-> <<>>,
                  ev |-> <<mkdir>> \o r.ev]
            ELSE Built(r, installerConfig(dev, r.ipaddress, r.asn))
    IN  IF ~e.mkdirOK
        THEN [err |-> "mkdir of target os failed", y |-> <<>>, file |-> <<>>,
              ev |-> <<mkdir>>]
        ELSE Resolved(resolveAddress(dev, e.asnFails))

\* ------------------------------------------------- the pipeline's steps
\* partition(disk): writes the partition table; ok is whether it succeeds
partition(d, ok) ==
    [err |-> IF ok THEN NoErr ELSE "partition failed",
     ev  |-> <<Event("partition", d.Device)>>]

\* filepath.Join(prefix, mountPoint): the joined path, cleaned
JoinPath(dir, elem) ==
    IF elem = "" \/ elem = "/" THEN dir ELSE dir \o elem

\* the directory a path names, as the kernel resolves it
Resolve(path) == IF path = "/rootfs/" THEN "/rootfs" ELSE path

MountStages == {"createFilesystem", "os.MkdirAll", "syscall.Mount"}

RECURSIVE mountLoop(_, _, _)
\* mountPartitions, lines 200-224, from the i-th partition of the mount
\* order on; failAt = <<i, stage>> names the call that fails, <<>> none
mountLoop(parts, i, failAt) ==
    IF i > Len(parts) THEN [err |-> NoErr, ev |-> <<>>, mounted |-> {}]
    ELSE
      LET p      == parts[i]
          target == JoinPath(prefix, p.MountPoint)
          mkfs   == Event("createFilesystem", p.Device)
          mkdir  == Event("os.MkdirAll", target)
          mnt    == Event("syscall.Mount", target)
          rest   == mountLoop(parts, i + 1, failAt)
      IN  IF failAt = <<i, "createFilesystem">>
          THEN [err |-> "mount partitions create fs failed", ev |-> <<mkfs>>,
                mounted |-> {}]
          ELSE IF p.MountPoint = ""
          THEN [rest EXCEPT !.ev = <<mkfs>> \o @]
          ELSE IF failAt = <<i, "os.MkdirAll">>
          THEN [err |-> "mount partitions create directory failed",
                ev |-> <<mkfs, mkdir>>, mounted |-> {}]
          ELSE IF failAt = <<i, "syscall.Mount">>
          THEN [err |-> "mount partitions mount failed",
                ev |-> <<mkfs, mkdir, mnt>>, mounted |-> {}]
          ELSE [rest EXCEPT !.ev = <<mkfs, mkdir, mnt>> \o @,
                            !.mounted = {target} \cup @]

\* mountPartitions without line 198: the partitions in declaration order
mountPartitions_DeclarationOrder(d, failAt) ==
    mountLoop(d.Partitions, 1, failAt)

\* mountPartitions with a cleanup on the error path: what earlier iterations
\* mounted is unmounted again before the error is returned
mountPartitions_UnmountsOnFailure(d, failAt) ==
    LET Cleaned(r) == IF r.err # NoErr THEN [r EXCEPT !.mounted = {}] ELSE r
    IN  Cleaned(mountLoop(SortByMountPoint(d.Partitions), 1, failAt))

\* mountPartitions(prefix, disk)
mountPartitions(d, failAt) ==
    mountLoop(SortByMountPoint(d.Partitions), 1, failAt)

\* download(source, dest): what dest holds afterwards. A failed download
\* leaves dest as it was, or truncated when e.partial
download(old, ok, content, partial) ==
    IF ok THEN <<content>> ELSE IF partial THEN <<"partial">> ELSE old

\* checkMD5(file, md5file): the digest of the file against the md5 file's
\* content; readOK is whether both could be read
checkMD5(file, md5file, readOK) ==
    IF ~readOK \/ file = <<>> \/ md5file = <<>>
    THEN [err |-> TRUE, matches |-> FALSE]
    ELSE [err |-> FALSE, matches |-> file[1] = md5file[1]]

\* line 262 with && for ||
md5Mismatch_And(chk) == chk.err /\ ~chk.matches

\* pull, line 262: err != nil || !matches
md5Mismatch(chk) == chk.err \/ ~chk.matches

\* pull(image). The deferred os.Remove(md5destination) is registered after
\* the second download (line 256) and runs on every return after that line.
pull(f, e) ==
    LET dl1 == Event("download", osImageDestination)
        dl2 == Event("download", osImageDestination \o ".md5")
        rm  == Event("os.Remove", osImageDestination \o ".md5")
        f1  == [f EXCEPT !.image = download(f.image, e.imageOK, e.imageDigest,
                                            e.partial)]
        f2  == [f1 EXCEPT !.md5 = download(f1.md5, e.md5OK, e.md5Digest,
                                           e.partial)]
        chk == checkMD5(f2.image, f2.md5, e.readOK)
        removed == [f2 EXCEPT !.md5 = <<>>]
    IN  IF ~e.imageOK
        THEN [err |-> "unable to pull image", files |-> f1, ev |-> <<dl1>>]
        ELSE IF ~e.md5OK
        THEN [err |-> "unable to pull md5", files |-> removed,
              ev |-> <<dl1, dl2, rm>>]
        ELSE IF md5Mismatch(chk)
        THEN [err |-> "md5sum mismatch", files |-> removed,
              ev |-> <<dl1, dl2, Event("checkMD5", ""), rm>>]
        ELSE [err |-> NoErr, files |-> removed,
              ev |-> <<dl1, dl2, Event("checkMD5", ""), rm>>]

\* strings.HasSuffix
HasSuffix(cs, suffix) ==
    /\ Len(cs) >= Len(suffix)
    /\ SubSeq(cs, Len(cs) - Len(suffix) + 1, Len(cs)) = suffix

\* burn without the os.Remove of line 315: the staged file is kept
burn_KeepsStagedFile(f, image, e) ==
    LET open    == Event("os.Open", osImageDestination)
        stat    == Event("file.Stat", osImageDestination)
        lz4     == Event("lz4.NewReader", osImageDestination)
        untar   == Event("archiver.Tar.Read", prefix)
    IN  IF ~e.openOK \/ f.image = <<>>
        THEN [err |-> "failed to open archive", files |-> f, ev |-> <<open>>]
        ELSE IF ~e.statOK
        THEN [err |-> "unable to stat", files |-> f, ev |-> <<open, stat>>]
        ELSE IF ~HasSuffix(image, <<"l", "z", "4">>)
        THEN [err |-> "unsupported image compression format", files |-> f,
              ev |-> <<open, stat>>]
        ELSE IF ~e.tarOK
        THEN [err |-> "unable to burn image",
              files |-> [f EXCEPT !.rootfs = "partial"],
              ev |-> <<open, stat, lz4, untar>>]
        ELSE [err |-> NoErr,
              files |-> [f EXCEPT !.rootfs = "extracted", !.installSh = TRUE],
              ev |-> <<open, stat, lz4, untar>>]

\* burn(prefix, image): opens and stats the staged file, then checks the
\* suffix of image, then decompresses and extracts, then removes the file
burn(f, image, e) ==
    LET open    == Event("os.Open", osImageDestination)
        stat    == Event("file.Stat", osImageDestination)
        lz4     == Event("lz4.NewReader", osImageDestination)
        untar   == Event("archiver.Tar.Read", prefix)
        rm      == Event("os.Remove", osImageDestination)
    IN  IF ~e.openOK \/ f.image = <<>>
        THEN [err |-> "failed to open archive", files |-> f, ev |-> <<open>>]
        ELSE IF ~e.statOK
        THEN [err |-> "unable to stat", files |-> f, ev |-> <<open, stat>>]
        ELSE IF ~HasSuffix(image, <<"l", "z", "4">>)
        THEN [err |-> "unsupported image compression format", files |-> f,
              ev |-> <<open, stat>>]
        ELSE IF ~e.tarOK
        THEN [err |-> "unable to burn image",
              files |-> [f EXCEPT !.rootfs = "partial"],
              ev |-> <<open, stat, lz4, untar>>]
        ELSE [err |-> NoErr,
              files |-> [f EXCEPT !.rootfs = "extracted", !.installSh = TRUE,
                                  !.image = IF e.removeOK THEN <<>> ELSE @],
              ev |-> <<open, stat, lz4, untar, rm>>]

\* ------------------------------------------------ the install executor
\* install, lines 336-342: the targets of the four mounts, in order
installMounts == <<"/proc", "/sys", "/tmp", "/dev">>

\* line 411 with the root mount point listed first
umounts_RootFirst == <<"/", "/boot/efi", "/proc", "/sys", "/dev", "/tmp">>

\* install, line 411: the mount points unmounted at the end, in order
umounts == <<"/boot/efi", "/proc", "/sys", "/dev", "/tmp", "/">>

\* lines 344-349 with a break at the first failing mount
bindMounts_StopsAtFailure(failed) ==
    LET n == IF failed = {} THEN Len(installMounts)
             ELSE CHOOSE i \in failed : \A j \in failed : i <= j
    IN  [ev |-> [i \in 1..n |->
                    Event("syscall.Mount", prefix \o installMounts[i])],
         mounted |-> {prefix \o installMounts[i] : i \in (1..n) \ failed}]

\* install, lines 344-349: every mount is attempted; failed is the set of
\* indices whose syscall.Mount fails
bindMounts(failed) ==
    [ev |-> [i \in 1..Len(installMounts) |->
                Event("syscall.Mount", prefix \o installMounts[i])],
     mounted |-> {prefix \o installMounts[i] :
                     i \in (1..Len(installMounts)) \ failed}]

\* writePhoneHomeToken(phoneHomeToken)
writePhoneHomeToken(ok) ==
    [err |-> IF ok THEN NoErr ELSE "write of phoneHome.jwt failed",
     ev  |-> <<Event("ioutil.WriteFile", "/rootfs/etc/metal/phoneHome.jwt")>>]

\* lines 351-359 with the error of writePhoneHomeToken dropped
writeConfig_IgnoresTokenError(dev, e) ==
    LET Tokened(c, t) ==
            [err |-> NoErr, y |-> c.y, file |-> c.file,
             token |-> t.err = NoErr, ev |-> c.ev \o t.ev]
        Written(c) ==
            IF c.err # NoErr
            THEN [err |-> "writing configuration install.yaml failed",
                  y |-> c.y, file |-> c.file, token |-> FALSE, ev |-> c.ev]
            ELSE Tokened(c, writePhoneHomeToken(e.tokenOK))
    IN  Written(writeInstallerConfig(dev, e))

\* install, lines 351-359: the installer config, then the token.
\* Written(c) is the code after writeInstallerConfig returned c.
writeConfig(dev, e) ==
    LET Tokened(c, t) ==
            IF t.err # NoErr
            THEN [err |-> "writing phoneHome.jwt failed", y |-> c.y,
                  file |-> c.file, token |-> FALSE, ev |-> c.ev \o t.ev]
            ELSE [err |-> NoErr, y |-> c.y, file |-> c.file, token |-> TRUE,
                  ev |-> c.ev \o t.ev]
        Written(c) ==
            IF c.err # NoErr
            THEN [err |-> "writing configuration install.yaml failed",
                  y |-> c.y, file |-> c.file, token |-> FALSE, ev |-> c.ev]
            ELSE Tokened(c, writePhoneHomeToken(e.tokenOK))
    IN  Written(writeInstallerConfig(dev, e))

\* lines 361-390 with the error of cmd.Run only logged
runInstallScript_IgnoresExit(dir, e) ==
    LET cd1  == Event("os.Chdir", prefix)
        run  == Event("cmd.Run", "/install.sh")
        cd2  == Event("os.Chdir", "/")
        rm   == Event("os.Remove", "/rootfs/install.sh")
    IN  IF ~e.chdirOK
        THEN [err |-> "unable to chdir to prefix", cwd |-> dir,
              removed |-> FALSE, ev |-> <<cd1>>]
        ELSE IF ~e.chdirBackOK
        THEN [err |-> "unable to chdir to /", cwd |-> prefix,
              removed |-> FALSE, ev |-> <<cd1, run, cd2>>]
        ELSE [err |-> NoErr, cwd |-> "/", removed |-> e.removeOK,
              ev |-> <<cd1, run, cd2, rm>>]

\* install, lines 361-390: chdir into the prefix, run /install.sh in the
\* chroot, chdir back to "/", remove the script (best effort)
runInstallScript(dir, e) ==
    LET cd1  == Event("os.Chdir", prefix)
        run  == Event("cmd.Run", "/install.sh")
        cd2  == Event("os.Chdir", "/")
        rm   == Event("os.Remove", "/rootfs/install.sh")
    IN  IF ~e.chdirOK
        THEN [err |-> "unable to chdir to prefix", cwd |-> dir,
              removed |-> FALSE, ev |-> <<cd1>>]
        ELSE IF ~e.runOK
        THEN [err |-> "running install.sh in chroot failed", cwd |-> prefix,
              removed |-> FALSE, ev |-> <<cd1, run>>]
        ELSE IF ~e.chdirBackOK
        THEN [err |-> "unable to chdir to /", cwd |-> prefix,
              removed |-> FALSE, ev |-> <<cd1, run, cd2>>]
        ELSE [err |-> NoErr, cwd |-> "/", removed |-> e.removeOK,
              ev |-> <<cd1, run, cd2, rm>>]

\* readBootInfo(): content is what boot-info.yaml holds; its status is
\* "missing" (no such file), "malformed" (does not unmarshal) or "ok"
readBootInfo(content) ==
    LET read == Event("ioutil.ReadFile", "/rootfs/etc/metal/boot-info.yaml")
    IN  IF content.status = "missing"
        THEN [err |-> "could not read boot-info.yaml", info |-> <<>>,
              ev |-> <<read>>]
        ELSE IF content.status = "malformed"
        THEN [err |-> "could not unmarshal boot-info.yaml", info |-> <<>>,
              ev |-> <<read>>]
        ELSE [err |-> NoErr,
              info |-> <<[Kernel |-> content.Kernel, Initrd |-> content.Initrd]>>,
              ev |-> <<read>>]

\* index of the last occurrence of character c in cs, 0 when there is none
LastIndexByte(cs, c) ==
    IF \E i \in 1..Len(cs) : cs[i] = c
    THEN CHOOSE i \in 1..Len(cs) :
            cs[i] = c /\ \A j \in (i + 1)..Len(cs) : cs[j] # c
    ELSE 0

RECURSIVE StripSlashes(_)
\* cs without its trailing "/" characters
StripSlashes(cs) ==
    IF cs # <<>> /\ cs[Len(cs)] = "/"
    THEN StripSlashes(SubSeq(cs, 1, Len(cs) - 1)) ELSE cs

\* filepath.Base
Base(cs) ==
    LET Last(t) ==
            IF t = <<>> THEN "/"
            ELSE Text(SubSeq(t, LastIndexByte(t, "/") + 1, Len(t)))
    IN  IF cs = <<>> THEN "." ELSE Last(StripSlashes(cs))

\* path.Join(dir, elem) for one element without a "/" of its own
Join(dir, elem) ==
    IF elem = "." \/ elem = "/" \/ elem = "" THEN dir ELSE dir \o "/" \o elem

\* lines 397-409 without lines 408-409: the paths the script reported are
\* returned as they are
copyBootArtifacts_KeepsPaths(bi, failAt) ==
    LET Copied(dest) ==
            [err    |-> IF failAt = 0 THEN NoErr ELSE "copy failed",
             ev     |-> [i \in 1..(IF failAt = 0 THEN 2 ELSE failAt) |->
                            Event("copy", dest[i])],
             copies |-> {dest[i] :
                            i \in 1..(IF failAt = 0 THEN 2 ELSE failAt - 1)},
             info   |-> IF failAt = 0
                        THEN <<[Kernel |-> Text(bi.Kernel),
                                Initrd |-> Text(bi.Initrd)]>>
                        ELSE <<>>]
    IN  Copied(<<Join("/tmp", Base(bi.Kernel)), Join("/tmp", Base(bi.Initrd))>>)

\* install, lines 397-409: copy the kernel and the initrd to /tmp, then
\* rewrite the paths; failAt is the index of the copy that fails, 0 for none
copyBootArtifacts(bi, failAt) ==
    LET Copied(dest) ==
            [err    |-> IF failAt = 0 THEN NoErr ELSE "copy failed",
             ev     |-> [i \in 1..(IF failAt = 0 THEN 2 ELSE failAt) |->
                            Event("copy", dest[i])],
             copies |-> {dest[i] :
                            i \in 1..(IF failAt = 0 THEN 2 ELSE failAt - 1)},
             info   |-> IF failAt = 0
                        THEN <<[Kernel |-> dest[1], Initrd |-> dest[2]]>>
                        ELSE <<>>]
    IN  Copied(<<Join("/tmp", Base(bi.Kernel)), Join("/tmp", Base(bi.Initrd))>>)

\* install, lines 412-419 with a return at the first failing unmount
unmountAll_StopsAtFailure(mounted, failed) ==
    LET n == IF failed = {} THEN Len(umounts)
             ELSE CHOOSE i \in failed : \A j \in failed : i <= j
    IN  [ev |-> [i \in 1..n |-> Event("syscall.Unmount", prefix \o umounts[i])],
         mounted |-> mounted \ {Resolve(prefix \o umounts[i]) :
                                   i \in (1..n) \ failed},
         err |-> IF failed = {} THEN NoErr ELSE "unable to umount"]

\* install, lines 411-421: every mount point is unmounted in order; failed
\* is the set of indices whose syscall.Unmount fails
unmountAll(mounted, failed) ==
    [ev |-> [i \in 1..Len(umounts) |->
                Event("syscall.Unmount", prefix \o umounts[i])],
     mounted |-> mounted \ {Resolve(prefix \o umounts[i]) :
                               i \in (1..Len(umounts)) \ failed},
     err |-> NoErr]

\* ------------------------------------------------------------------ state
VARIABLES
    pc,        \* the position of the running call
    layout,    \* the partitions handed to SortByMountPoint
    ordered,   \* what SortByMountPoint returned
    disk,      \* the package variable defaultDisk
    device,    \* the assignment: Cidr, Hostname, SSHPubKeys, Image
    files,     \* the files the pipeline stages, writes and removes
    mounts,    \* the mount table: the mounted target paths
    cwd,       \* the working directory of the process
    log,       \* the calls made so far, in order
    env,       \* the outcomes the environment gave to the calls made so far
    config,    \* the InstallerConfig built by writeInstallerConfig, if any
    result,    \* what each function returned: None until it has returned
    info,      \* install's local info: the boot info read, if any
    bootinfo,  \* the boot info returned by Install, if any
    wait       \* Wait's locals resp and err

vars == <<pc, layout, ordered, disk, device, files, mounts, cwd, log, env,
          config, result, info, bootinfo, wait>>

\* ----------------------------------------------------------------- inputs
SeqsUpTo(S, n) == UNION {[1..k -> S] : k \in 0..n}

MountPointChoices == {"/", "/boot/efi", "", "/var"}

\* a layout with the given mount points, numbered in declaration order
MakeLayout(mps) ==
    [i \in 1..Len(mps) |->
        [Label |-> "p" \o FormatInt(i), Device |-> "/dev/sda" \o FormatInt(i),
         Number |-> i, MountPoint |-> mps[i], Filesystem |-> "ext4",
         Size |-> 100]]

Layouts == {MakeLayout(mps) : mps \in SeqsUpTo(MountPointChoices, MaxParts)}

cidrDhcp     == <<"d", "h", "c", "p">>
cidrNode     == <<"1", "0", ".", "0", ".", "0", ".", "5", "/", "2", "4">>
cidrWide     == <<"1", "2", "7", ".", "2", "5", "5", ".", "3", ".", "4", "0",
                  "/", "8">>
cidrNoMask   == <<"1", "0", ".", "0", ".", "0", ".", "5">>
cidrBadMask  == <<"1", "0", ".", "0", ".", "0", ".", "5", "/", "3", "3">>
cidrBadOctet == <<"1", "0", ".", "0", ".", "0", ".", "2", "5", "6", "/", "2",
                  "4">>
cidrShort    == <<"1", "0", ".", "0", ".", "5", "/", "2", "4">>

Cidrs == {cidrDhcp, cidrNode, cidrWide, cidrNoMask, cidrBadMask, cidrBadOctet,
          cidrShort}
Hostnames == {"node1", "node2"}
Keys == {"key-a", "key-b"}

imageLz4 == <<"o", "s", ".", "t", "a", "r", ".", "l", "z", "4">>
imageTgz == <<"o", "s", ".", "t", "g", "z">>
imageZ4  == <<"z", "4">>

Devices ==
    [Cidr : Cidrs, Hostname : Hostnames, SSHPubKeys : SeqsUpTo(Keys, MaxKeys),
     Image : {imageLz4}]

NoFiles ==
    [image |-> <<>>, md5 |-> <<>>, rootfs |-> "empty", installYaml |-> <<>>,
     token |-> FALSE, installSh |-> FALSE, copies |-> {}]

NoResult ==
    [partition |-> None, mountPartitions |-> None, pull |-> None,
     burn |-> None, install |-> None, Install |-> None,
     writeInstallerConfig |-> None, Wait |-> None]

\* Wait's locals before the first http.Get: var resp *http.Response; var err error
NoWait == [resp |-> <<>>, err |-> NoErr]

\* ------------------------------------------- SortByMountPoint on its own
InitSort ==
    /\ pc = "SortByMountPoint"
    /\ layout \in Layouts
    /\ ordered = <<>>
    /\ disk = defaultDisk
    /\ device = [Cidr |-> cidrDhcp, Hostname |-> "node1", SSHPubKeys |-> <<>>,
                 Image |-> imageLz4]
    /\ files = NoFiles
    /\ mounts = {}
    /\ cwd = "/"
    /\ log = <<>>
    /\ env = <<>>
    /\ config = <<>>
    /\ result = NoResult
    /\ info = <<>>
    /\ bootinfo = <<>>
    /\ wait = NoWait

CallSortByMountPoint ==
    /\ pc = "SortByMountPoint"
    /\ ordered' = SortByMountPoint(layout)
    /\ pc' = "sorted"
    /\ UNCHANGED <<wait, layout, disk, device, files, mounts, cwd, log, env, config,
                   result, info, bootinfo>>

NextSort == CallSortByMountPoint

SpecSort == InitSort /\ [][NextSort]_vars

MountPointsOf(parts) == [i \in 1..Len(parts) |-> parts[i].MountPoint]

\* C1: SortByMountPoint returns a permutation of the declared partitions in
\* which every partition mounted at "/" comes before every other partition
\* and the other partitions keep their declaration order; the declared order
\* [boot("/boot/efi"), root("/")] gives [root, boot].
C1_SortRootFirstStable ==
    pc = "sorted" =>
        LET n == Len(layout)
        IN  /\ Len(ordered) = n
            /\ {ordered[i].Number : i \in 1..n} = 1..n
            /\ \A i \in 1..n : ordered[i] = layout[ordered[i].Number]
            /\ \A i, j \in 1..n :
                  (ordered[i].MountPoint = "/" /\ ordered[j].MountPoint # "/")
                      => i < j
            /\ \A i, j \in 1..n :
                  (i < j /\ ordered[i].MountPoint # "/"
                         /\ ordered[j].MountPoint # "/")
                      => ordered[i].Number < ordered[j].Number
            /\ (MountPointsOf(layout) = <<"/boot/efi", "/">>
                   => ordered = <<layout[2], layout[1]>>)

C1_Witness ==
    /\ pc = "sorted"
    /\ MountPointsOf(layout) = <<"/boot/efi", "/">>
    /\ MountPointsOf(ordered) = <<"/", "/boot/efi">>

\* ---------------------------------------- writeInstallerConfig on its own
ConfigEnvs == [mkdirOK : BOOLEAN, asnFails : BOOLEAN, writeOK : BOOLEAN]

InitConfig ==
    /\ pc = "writeInstallerConfig"
    /\ device \in Devices
    /\ layout = <<>>
    /\ ordered = <<>>
    /\ disk = initDisk(defaultDisk)
    /\ files = NoFiles
    /\ mounts = {}
    /\ cwd = "/"
    /\ log = <<>>
    /\ env = <<>>
    /\ config = <<>>
    /\ result = NoResult
    /\ info = <<>>
    /\ bootinfo = <<>>
    /\ wait = NoWait

CallWriteInstallerConfig ==
    /\ pc = "writeInstallerConfig"
    /\ \E e \in ConfigEnvs :
          \E r \in {writeInstallerConfig(device, e)} :
              /\ env' = <<e>>
              /\ config' = r.y
              /\ files' = [files EXCEPT !.installYaml = r.file]
              /\ log' = log \o r.ev
              /\ result' = [result EXCEPT !.writeInstallerConfig = r.err]
    /\ pc' = "returned"
    /\ UNCHANGED <<wait, layout, ordered, disk, device, mounts, cwd, info, bootinfo>>

NextConfig == CallWriteInstallerConfig

SpecConfig == InitConfig /\ [][NextConfig]_vars

Called(op) == \E i \in 1..Len(log) : log[i].op = op

\* the text of the network specification before its "/"
AddressPortion(cidr) == SubSeq(cidr, 1, IndexByte(cidr, "/") - 1)

RECURSIVE NewlineJoined(_)
\* the keys in declaration order, a newline between neighbours
NewlineJoined(keys) ==
    IF Len(keys) = 0 THEN ""
    ELSE IF Len(keys) = 1 THEN keys[1]
    ELSE NewlineJoined(SubSeq(keys, 1, Len(keys) - 1)) \o "\n" \o keys[Len(keys)]

\* C6: for the assigned address "dhcp", writeInstallerConfig builds an
\* InstallerConfig whose IPAddress is exactly "dhcp" and whose ASN is the
\* formatted zero value, without parsing an address and without calling
\* ipToASN; the config is built whenever the config directory could be made
\* and it is what install.yaml holds when the call returns no error.
C6_DhcpConfig ==
    (pc = "returned" /\ Text(device.Cidr) = "dhcp") =>
        /\ ~Called("ipToASN")
        /\ ~Called("net.ParseCIDR")
        /\ (env[1].mkdirOK <=> config # <<>>)
        /\ config # <<>> =>
              /\ config[1].IPAddress = "dhcp"
              /\ config[1].ASN = "0"
        /\ result.writeInstallerConfig = NoErr =>
              (config # <<>> /\ files.installYaml = config)

C6_Witness ==
    /\ pc = "returned"
    /\ Text(device.Cidr) = "dhcp"
    /\ result.writeInstallerConfig = NoErr
    /\ files.installYaml =
          <<[Hostname |-> "node1", SSHPublicKey |-> "key-a", IPAddress |-> "dhcp",
             ASN |-> "0"]>>

\* C7: for an assigned network specification other than "dhcp",
\* writeInstallerConfig builds an InstallerConfig with the assigned hostname,
\* the SSH keys joined by newline in declaration order, the address portion
\* without the mask as IPAddress and the AS number derived from that address
\* as ASN; {node1, 10.0.0.5/24, [key-a, key-b]} gives
\* {node1, "key-a\nkey-b", 10.0.0.5, ASN of 10.0.0.5}.
C7_StaticAddressConfig ==
    (pc = "returned" /\ Text(device.Cidr) # "dhcp") =>
        /\ (config # <<>> <=>
              (env[1].mkdirOK /\ ~ParseCIDR(device.Cidr).err /\ ~env[1].asnFails))
        /\ config # <<>> =>
              /\ config[1].Hostname = device.Hostname
              /\ config[1].SSHPublicKey = NewlineJoined(device.SSHPubKeys)
              /\ config[1].IPAddress = Text(AddressPortion(device.Cidr))
              /\ config[1].ASN =
                    FormatInt(ASNOfAddress(ParseIPv4(AddressPortion(device.Cidr))))
        /\ (config # <<>> /\ device.Cidr = cidrNode /\ device.Hostname = "node1"
               /\ device.SSHPubKeys = <<"key-a", "key-b">>) =>
              config[1] = [Hostname |-> "node1", SSHPublicKey |-> "key-a\nkey-b",
                           IPAddress |-> "10.0.0.5", ASN |-> "167772165"]
        /\ result.writeInstallerConfig = NoErr =>
              (config # <<>> /\ files.installYaml = config)

C7_Witness ==
    /\ pc = "returned"
    /\ device.Cidr = cidrNode
    /\ result.writeInstallerConfig = NoErr
    /\ files.installYaml =
          <<[Hostname |-> "node1", SSHPublicKey |-> "key-a\nkey-b",
             IPAddress |-> "10.0.0.5", ASN |-> "167772165"]>>

\* ------------------------------------------------------------ the pipeline
Steps == <<"partition", "mountPartitions", "pull", "burn", "install">>

PipelineDevices ==
    [Cidr : {cidrDhcp, cidrNode, cidrBadMask}, Hostname : {"node1"},
     SSHPubKeys : {<<"key-a", "key-b">>},
     Image : {imageLz4, imageTgz, imageZ4}]

Digests == {"d1", "d2"}

kernelPath == <<"/", "b", "o", "o", "t", "/", "v", "m", "l">>
initrdPath == <<"/", "b", "o", "o", "t", "/", "i", "r", "d">>
BootInfoContents ==
    {[status |-> "missing", Kernel |-> <<>>, Initrd |-> <<>>],
     [status |-> "malformed", Kernel |-> <<>>, Initrd |-> <<>>],
     [status |-> "ok", Kernel |-> kernelPath, Initrd |-> initrdPath],
     [status |-> "ok", Kernel |-> <<"v", "m", "l">>,
      Initrd |-> <<"i", "r", "d", "/">>]}

NoEnv ==
    [mount |-> <<>>, pull |-> <<>>, burn |-> <<>>, bind |-> <<>>,
     config |-> <<>>, run |-> <<>>, boot |-> <<>>, copy |-> <<>>,
     umount |-> <<>>]

Init ==
    /\ pc = "init"
    /\ layout = <<>>
    /\ ordered = <<>>
    /\ disk = defaultDisk
    /\ device \in PipelineDevices
    /\ files \in {[NoFiles EXCEPT !.md5 = m] : m \in {<<>>, <<"stale">>}}
    /\ mounts = {}
    /\ cwd = "/"
    /\ log = <<>>
    /\ env = NoEnv
    /\ config = <<>>
    /\ result = NoResult
    /\ info = <<>>
    /\ bootinfo = <<>>
    /\ wait = NoWait

\* init(): runs before Install
InitDisk ==
    /\ pc = "init"
    /\ disk' = initDisk(disk)
    /\ pc' = "partition"
    /\ UNCHANGED <<wait, layout, ordered, device, files, mounts, cwd, log, env,
                   config, result, info, bootinfo>>

\* Install, lines 170-186, with the error of a step ignored
Return_IgnoresError(step, err, next) ==
    /\ result' = [result EXCEPT ![step] = err]
    /\ pc' = next

\* Install, lines 170-186: "if err != nil { return nil, err }" after a step
Return(step, err, next) ==
    /\ result' = [result EXCEPT ![step] = err,
                                !.Install = IF err = NoErr THEN @ ELSE err]
    /\ pc' = IF err = NoErr THEN next ELSE "done"

\* install: a stage has ended; an error makes install, and Install, return it
StageReturn(err, next) ==
    /\ result' = IF err = NoErr THEN result
                 ELSE [result EXCEPT !.install = err, !.Install = err]
    /\ pc' = IF err = NoErr THEN next ELSE "done"

Partition ==
    /\ pc = "partition"
    /\ \E ok \in BOOLEAN :
          \E r \in {partition(disk, ok)} :
              /\ log' = log \o <<Event("call", "partition")>> \o r.ev
              /\ Return("partition", r.err, "mountPartitions")
    /\ UNCHANGED <<wait, layout, ordered, disk, device, files, mounts, cwd, env,
                   config, info, bootinfo>>

MountFailures ==
    {<<>>} \cup {<<i, st>> : i \in 1..Len(defaultDisk.Partitions),
                             st \in MountStages}

MountPartitions ==
    /\ pc = "mountPartitions"
    /\ \E failAt \in MountFailures :
          \E r \in {mountPartitions(disk, failAt)} :
              /\ log' = log \o <<Event("call", "mountPartitions")>> \o r.ev
              /\ mounts' = mounts \cup r.mounted
              /\ env' = [env EXCEPT !.mount = <<failAt>>]
              /\ Return("mountPartitions", r.err, "pull")
    /\ UNCHANGED <<wait, layout, ordered, disk, device, files, cwd, config, info,
                   bootinfo>>

PullEnvs ==
    [imageOK : BOOLEAN, md5OK : BOOLEAN, readOK : BOOLEAN, partial : BOOLEAN,
     imageDigest : Digests, md5Digest : Digests]

Pull ==
    /\ pc = "pull"
    /\ \E e \in PullEnvs :
          \E r \in {pull(files, e)} :
              /\ log' = log \o <<Event("call", "pull")>> \o r.ev
              /\ files' = r.files
              /\ env' = [env EXCEPT !.pull = <<e>>]
              /\ Return("pull", r.err, "burn")
    /\ UNCHANGED <<wait, layout, ordered, disk, device, mounts, cwd, config, info,
                   bootinfo>>

BurnEnvs ==
    [openOK : BOOLEAN, statOK : BOOLEAN, tarOK : BOOLEAN, removeOK : BOOLEAN]

Burn ==
    /\ pc = "burn"
    /\ \E e \in BurnEnvs :
          \E r \in {burn(files, device.Image, e)} :
              /\ log' = log \o <<Event("call", "burn")>> \o r.ev
              /\ files' = r.files
              /\ env' = [env EXCEPT !.burn = <<e>>]
              /\ Return("burn", r.err, "install.BindMounts")
    /\ UNCHANGED <<wait, layout, ordered, disk, device, mounts, cwd, config, info,
                   bootinfo>>

BindMounts ==
    /\ pc = "install.BindMounts"
    /\ \E failed \in SUBSET (1..Len(installMounts)) :
          \E r \in {bindMounts(failed)} :
              /\ log' = log \o <<Event("call", "install")>> \o r.ev
              /\ mounts' = mounts \cup r.mounted
              /\ env' = [env EXCEPT !.bind = <<failed>>]
    /\ pc' = "install.WriteConfig"
    /\ UNCHANGED <<wait, layout, ordered, disk, device, files, cwd, config, result,
                   info, bootinfo>>

WriteConfigEnvs ==
    [mkdirOK : BOOLEAN, asnFails : BOOLEAN, writeOK : BOOLEAN,
     tokenOK : BOOLEAN]

WriteConfig ==
    /\ pc = "install.WriteConfig"
    /\ \E e \in WriteConfigEnvs :
          \E r \in {writeConfig(device, e)} :
              /\ log' = log \o r.ev
              /\ config' = r.y
              /\ files' = [files EXCEPT !.installYaml = r.file,
                                        !.token = r.token]
              /\ env' = [env EXCEPT !.config = <<e>>]
              /\ StageReturn(r.err, "install.RunInstallScript")
    /\ UNCHANGED <<wait, layout, ordered, disk, device, mounts, cwd, info, bootinfo>>

RunEnvs ==
    [chdirOK : BOOLEAN, runOK : BOOLEAN, chdirBackOK : BOOLEAN,
     removeOK : BOOLEAN]

RunInstallScript ==
    /\ pc = "install.RunInstallScript"
    /\ \E e \in RunEnvs :
          \E r \in {runInstallScript(cwd, e)} :
              /\ log' = log \o r.ev
              /\ cwd' = r.cwd
              /\ files' = [files EXCEPT !.installSh = IF r.removed THEN FALSE
                                                      ELSE @]
              /\ env' = [env EXCEPT !.run = <<e>>]
              /\ StageReturn(r.err, "install.ReadBootInfo")
    /\ UNCHANGED <<wait, layout, ordered, disk, device, mounts, config, info,
                   bootinfo>>

ReadBootInfo ==
    /\ pc = "install.ReadBootInfo"
    /\ \E content \in BootInfoContents :
          \E r \in {readBootInfo(content)} :
              /\ log' = log \o r.ev
              /\ info' = r.info
              /\ env' = [env EXCEPT !.boot = <<content>>]
              /\ StageReturn(r.err, "install.CopyBootArtifacts")
    /\ UNCHANGED <<wait, layout, ordered, disk, device, files, mounts, cwd, config,
                   bootinfo>>

CopyBootArtifacts ==
    /\ pc = "install.CopyBootArtifacts"
    /\ \E failAt \in 0..2 :
          \E r \in {copyBootArtifacts(info[1], failAt)} :
              /\ log' = log \o r.ev
              /\ files' = [files EXCEPT !.copies = @ \cup r.copies]
              /\ info' = r.info
              /\ env' = [env EXCEPT !.copy = <<failAt>>]
              /\ StageReturn(r.err, "install.Unmount")
    /\ UNCHANGED <<wait, layout, ordered, disk, device, mounts, cwd, config,
                   bootinfo>>

\* the unmount of a path that is not mounted fails
NotMounted == {i \in 1..Len(umounts) : Resolve(prefix \o umounts[i]) \notin mounts}

Unmount ==
    /\ pc = "install.Unmount"
    /\ \E failed \in SUBSET (1..Len(umounts)) :
          /\ NotMounted \subseteq failed
          /\ \E r \in {unmountAll(mounts, failed)} :
                 /\ log' = log \o r.ev
                 /\ mounts' = r.mounted
                 /\ env' = [env EXCEPT !.umount = <<failed>>]
                 /\ result' = [result EXCEPT !.install = r.err,
                                             !.Install = r.err]
                 /\ bootinfo' = IF r.err = NoErr THEN info ELSE <<>>
    /\ pc' = "done"
    /\ UNCHANGED <<wait, layout, ordered, disk, device, files, cwd, config, info>>

Next ==
    \/ InitDisk
    \/ Partition
    \/ MountPartitions
    \/ Pull
    \/ Burn
    \/ BindMounts
    \/ WriteConfig
    \/ RunInstallScript
    \/ ReadBootInfo
    \/ CopyBootArtifacts
    \/ Unmount

Spec == Init /\ [][Next]_vars

\* ------------------------------------------------- claims on the pipeline
\* the arguments of the calls of op made so far, in order
ArgsOf(op) ==
    LET IsOp(ev) == ev.op = op
        calls    == SelectSeq(log, IsOp)
    IN  [i \in 1..Len(calls) |-> calls[i].arg]

Returned(step) == result[step] # None
Failed(step) == result[step] \notin {None, NoErr}

\* C2: once install reaches its unmount phase, an unmount is attempted on
\* every listed mount point, in order, whatever subset of the unmount calls
\* fails, and install returns the boot info without an error.
C2_UnmountBestEffort ==
    env.umount # <<>> =>
        /\ pc = "done"
        /\ ArgsOf("syscall.Unmount") =
              <<"/rootfs/boot/efi", "/rootfs/proc", "/rootfs/sys",
                "/rootfs/dev", "/rootfs/tmp", "/rootfs/">>
        /\ result.install = NoErr
        /\ result.Install = NoErr
        /\ bootinfo # <<>>
        /\ bootinfo = info

C2_Witness ==
    /\ pc = "done"
    /\ env.umount = <<{2, 5}>>
    /\ {"/rootfs/proc", "/rootfs/tmp"} \subseteq mounts
    /\ "/rootfs" \notin mounts
    /\ result.Install = NoErr
    /\ bootinfo # <<>>

\* C3: after pull returns, on every exit path, no file is left at the
\* staging path with the .md5 suffix, whatever was there when pull started.
C3_ChecksumArtifactAbsent ==
    Returned("pull") => files.md5 = <<>>

\* C4: pull returns success exactly when the image download succeeded, the
\* checksum download succeeded, the check ran without error and the digest
\* of the staged image equals the downloaded digest; each failure gives the
\* error of its own step.
C4_PullSuccessOnlyWhenVerified ==
    Returned("pull") =>
        LET e == env.pull[1]
        IN  /\ result.pull = NoErr <=>
                  (e.imageOK /\ e.md5OK /\ e.readOK
                      /\ e.imageDigest = e.md5Digest)
            /\ ~e.imageOK => result.pull = "unable to pull image"
            /\ (e.imageOK /\ ~e.md5OK) => result.pull = "unable to pull md5"
            /\ (e.imageOK /\ e.md5OK
                   /\ (~e.readOK \/ e.imageDigest # e.md5Digest))
                  => result.pull = "md5sum mismatch"
            /\ Failed("pull") => (result.Install = result.pull /\ pc = "done")

C4_Witness ==
    /\ result.pull = NoErr
    /\ env.pull[1].imageDigest = "d2"
    /\ files.image = <<"d2">>
    /\ pc = "burn"

\* C5: when burn is called for an image name without the lz4 suffix it ends
\* with the unsupported-format error and nothing else: no other error comes
\* first, no decompressor is opened, nothing is extracted and the staged
\* file stays.
C5_UnsupportedFormatFirst ==
    (Returned("burn") /\ device.Image \in {imageTgz, imageZ4}) =>
        /\ result.burn = "unsupported image compression format"
        /\ ArgsOf("lz4.NewReader") = <<>>
        /\ ArgsOf("archiver.Tar.Read") = <<>>
        /\ files.rootfs = "empty"
        /\ files.image # <<>>

DevicePathsOK ==
    /\ \A i \in 1..Len(disk.Partitions) :
          /\ disk.Partitions[i].Number = i
          /\ disk.Partitions[i].Device = disk.Device \o FormatInt(i)
    /\ [i \in 1..Len(disk.Partitions) |-> disk.Partitions[i].Device]
          = <<"/dev/sda1", "/dev/sda2">>

\* C8: after init() every partition's device path is the disk's device path
\* followed by the partition's number, the numbers in declaration order are
\* 1..N, and no step of the pipeline changes the disk layout afterwards.
C8_DevicePaths ==
    /\ [](pc # "init" => DevicePathsOK)
    /\ [][pc # "init" => disk' = disk]_vars

C8_Witness ==
    /\ pc = "done"
    /\ result.Install = NoErr
    /\ disk.Partitions[1].Device = "/dev/sda1"
    /\ disk.Partitions[2].Device = "/dev/sda2"

\* C9: the steps of Install are called in the order partition,
\* mountPartitions, pull, burn, install; a step is called only after the step
\* before it returned without error; when a step returns an error, Install
\* returns that error with no boot info and no later step is called.
C9_StepsInOrder ==
    LET called == ArgsOf("call")
    IN  /\ Len(called) <= Len(Steps)
        /\ called = SubSeq(Steps, 1, Len(called))
        /\ \A k \in 2..Len(called) : result[Steps[k - 1]] = NoErr
        /\ \A k \in 1..Len(Steps) :
              Failed(Steps[k]) =>
                  /\ result.Install = result[Steps[k]]
                  /\ bootinfo = <<>>
                  /\ Len(called) = k
                  /\ pc = "done"
        /\ result.Install = NoErr =>
              \A k \in 1..Len(Steps) : result[Steps[k]] = NoErr

C9_Witness ==
    /\ pc = "done"
    /\ result.pull = "md5sum mismatch"
    /\ result.Install = "md5sum mismatch"
    /\ ArgsOf("call") = <<"partition", "mountPartitions", "pull">>
    /\ bootinfo = <<>>

\* C10: once the install script has been started, a failure of install is
\* still followed by an unmount attempt on every managed mount point before
\* install returns the error.
C10_UnmountAfterScriptFailure ==
    (Failed("install") /\ ArgsOf("cmd.Run") # <<>>) =>
        ArgsOf("syscall.Unmount") =
            <<"/rootfs/boot/efi", "/rootfs/proc", "/rootfs/sys",
              "/rootfs/dev", "/rootfs/tmp", "/rootfs/">>

\* C11: once install has changed the working directory into the staging
\* prefix to run the install script, the working directory is "/" again when
\* install returns, on every exit path, also when the script fails to start
\* or exits non-zero.
C11_WorkingDirectoryRestored ==
    (Returned("install") /\ env.run # <<>> /\ env.run[1].chdirOK) => cwd = "/"

\* ------------------------------------------------------ Wait on its own
\* largest number of http.Get calls of one Wait that the model follows
MaxAttempts == 4

\* http.StatusOK
StatusOK == 200

\* what http.Get can return. A transport error comes with a nil response;
\* only a failed redirect policy returns a response together with an error.
GetOutcomes ==
    {[resp |-> <<[StatusCode |-> 200]>>, err |-> NoErr],
     [resp |-> <<[StatusCode |-> 404]>>, err |-> NoErr],
     [resp |-> <<[StatusCode |-> 500]>>, err |-> NoErr],
     [resp |-> <<[StatusCode |-> 302]>>, err |-> "stopped after 10 redirects"],
     [resp |-> <<>>, err |-> "connection refused"]}

\* Wait, line 141: err != nil || resp.StatusCode != http.StatusOK
attemptFailed(w) == w.err # NoErr \/ w.resp[1].StatusCode # StatusOK

\* Wait, lines 141-145, after http.Get returned w: where the loop goes next.
\* The arguments of log.Warn read resp.StatusCode, a nil dereference when
\* resp is nil.
afterGet(w) ==
    IF attemptFailed(w)
    THEN IF w.resp = <<>>
         THEN [pc |-> "Wait.panic", ev |-> <<>>]
         ELSE [pc |-> "Wait.Sleep", ev |-> <<Event("log.Warn", "retrying")>>]
    ELSE [pc |-> "Wait.ReadAll", ev |-> <<>>]

WaitDevices ==
    {[Cidr |-> cidrDhcp, Hostname |-> "node1", SSHPubKeys |-> <<>>,
      Image |-> imageLz4],
     [Cidr |-> cidrNode, Hostname |-> "node2", SSHPubKeys |-> <<"key-a">>,
      Image |-> imageLz4]}

InitWait ==
    /\ pc = "Wait.Get"
    /\ layout = <<>>
    /\ ordered = <<>>
    /\ disk = initDisk(defaultDisk)
    /\ device = [Cidr |-> <<>>, Hostname |-> "", SSHPubKeys |-> <<>>,
                 Image |-> <<>>]
    /\ files = NoFiles
    /\ mounts = {}
    /\ cwd = "/"
    /\ log = <<>>
    /\ env = <<>>
    /\ config = <<>>
    /\ result = NoResult
    /\ info = <<>>
    /\ bootinfo = <<>>
    /\ wait = NoWait

\* Wait, lines 140-145: one http.Get and the branch on its outcome
Get ==
    /\ pc = "Wait.Get"
    /\ Len(env) < MaxAttempts
    /\ \E w \in GetOutcomes :
          \E r \in {afterGet(w)} :
              /\ wait' = w
              /\ env' = Append(env, w)
              /\ log' = log \o <<Event("http.Get", "/device/install/uuid")>>
                            \o r.ev
              /\ pc' = r.pc
    /\ UNCHANGED <<layout, ordered, disk, device, files, mounts, cwd, config,
                   result, info, bootinfo>>

\* Wait, line 146: time.Sleep(2 * time.Second), then the next iteration
Sleep ==
    /\ pc = "Wait.Sleep"
    /\ log' = log \o <<Event("time.Sleep", "2s")>>
    /\ pc' = "Wait.Get"
    /\ UNCHANGED <<wait, layout, ordered, disk, device, files, mounts, cwd,
                   env, config, result, info, bootinfo>>

\* Wait, lines 149-161: read the body and unmarshal the assignment
ReadResponse ==
    /\ pc = "Wait.ReadAll"
    /\ \/ /\ result' = [result EXCEPT
                           !.Wait = "wait for install reading response failed"]
          /\ wait' = [wait EXCEPT !.err = "read failed"]
          /\ UNCHANGED device
       \/ /\ result' = [result EXCEPT
                           !.Wait = "wait for install could not unmarshal response"]
          /\ wait' = [wait EXCEPT !.err = "unmarshal failed"]
          /\ UNCHANGED device
       \/ /\ \E d \in WaitDevices : device' = d
          /\ result' = [result EXCEPT !.Wait = NoErr]
          /\ UNCHANGED wait
    /\ log' = log \o <<Event("ioutil.ReadAll", "resp.Body")>>
    /\ pc' = "Wait.returned"
    /\ UNCHANGED <<layout, ordered, disk, files, mounts, cwd, env, config,
                   info, bootinfo>>

NextWait ==
    \/ Get
    \/ Sleep
    \/ ReadResponse

SpecWait == InitWait /\ [][NextWait]_vars

\* the calls of http.Get and time.Sleep made so far, in order
LoopCalls ==
    LET InLoop(ev) == ev.op \in {"http.Get", "time.Sleep"}
        calls      == SelectSeq(log, InLoop)
    IN  [i \in 1..Len(calls) |-> calls[i].op]

\* C12: in Wait every attempt that ends in a network error or in a response
\* with a non-success status is followed, after the fixed delay, by another
\* attempt; Wait leaves the loop only on a response with success status, and
\* it never crashes or returns an error because of a failed attempt.
C12_WaitRetriesUntilSuccess ==
    LET n == Len(env)
    IN  /\ pc # "Wait.panic"
        /\ \A i \in 1..Len(LoopCalls) :
              LoopCalls[i] = IF i % 2 = 1 THEN "http.Get" ELSE "time.Sleep"
        /\ \A i \in 1..(n - 1) : attemptFailed(env[i])
        /\ (n > 0 /\ attemptFailed(env[n])) =>
              /\ pc \in {"Wait.Sleep", "Wait.Get"}
              /\ result.Wait = None
              /\ Len(LoopCalls) \in {2 * n - 1, 2 * n}
        /\ pc \in {"Wait.ReadAll", "Wait.returned"} =>
              (n > 0 /\ ~attemptFailed(env[n]))

\* ------------------------------------------- mountPartitions on its own
InitMount ==
    /\ pc = "mountPartitions"
    /\ layout = <<>>
    /\ ordered = <<>>
    /\ disk \in {[Device |-> "/dev/sda", Partitions |-> l] : l \in Layouts}
    /\ device = [Cidr |-> cidrDhcp, Hostname |-> "node1", SSHPubKeys |-> <<>>,
                 Image |-> imageLz4]
    /\ files = NoFiles
    /\ mounts = {}
    /\ cwd = "/"
    /\ log = <<>>
    /\ env = <<>>
    /\ config = <<>>
    /\ result = NoResult
    /\ info = <<>>
    /\ bootinfo = <<>>
    /\ wait = NoWait

CallMountPartitions ==
    /\ pc = "mountPartitions"
    /\ \E failAt \in {<<>>} \cup {<<i, st>> : i \in 1..Len(disk.Partitions),
                                              st \in MountStages} :
          \E r \in {mountPartitions(disk, failAt)} :
              /\ log' = log \o r.ev
              /\ mounts' = mounts \cup r.mounted
              /\ env' = <<failAt>>
              /\ result' = [result EXCEPT !.mountPartitions = r.err]
    /\ pc' = "returned"
    /\ UNCHANGED <<wait, layout, ordered, disk, device, files, cwd, config,
                   info, bootinfo>>

NextMount == CallMountPartitions

SpecMount == InitMount /\ [][NextMount]_vars

\* the partitions of the disk that are mounted at "/"
RootPartitions ==
    {i \in 1..Len(disk.Partitions) : disk.Partitions[i].MountPoint = "/"}

\* the call log[k] is about a partition other than root
AboutOtherPartition(k, root) ==
    \/ log[k].op = "createFilesystem" /\ log[k].arg # root.Device
    \/ log[k].op \in {"os.MkdirAll", "syscall.Mount"} /\ log[k].arg # "/rootfs"

\* C13: for every declaration order of the partitions, mountPartitions
\* creates the filesystem of the partition with mount point "/" and mounts
\* it before any other partition is formatted or mounted, and every
\* partition is formatted before it is mounted.
C13_RootFormattedAndMountedFirst ==
    pc = "returned" =>
        /\ Cardinality(RootPartitions) = 1 =>
              LET root == disk.Partitions[CHOOSE i \in RootPartitions : TRUE]
              IN  /\ log[1] = Event("createFilesystem", root.Device)
                  /\ \A k \in 1..Len(log) :
                        AboutOtherPartition(k, root) =>
                            /\ k > 3
                            /\ log[3] = Event("syscall.Mount", "/rootfs")
                            /\ "/rootfs" \in mounts
        /\ \A k \in 1..Len(log) :
              log[k].op = "syscall.Mount" =>
                  /\ k >= 3
                  /\ log[k - 2].op = "createFilesystem"
                  /\ \E i \in 1..Len(disk.Partitions) :
                        /\ disk.Partitions[i].Device = log[k - 2].arg
                        /\ disk.Partitions[i].MountPoint # ""
                        /\ log[k].arg = prefix \o
                              (IF disk.Partitions[i].MountPoint = "/" THEN ""
                               ELSE disk.Partitions[i].MountPoint)

C13_Witness ==
    /\ pc = "returned"
    /\ MountPointsOf(disk.Partitions) = <<"/boot/efi", "", "/">>
    /\ result.mountPartitions = NoErr
    /\ log = <<Event("createFilesystem", "/dev/sda3"),
               Event("os.MkdirAll", "/rootfs"),
               Event("syscall.Mount", "/rootfs"),
               Event("createFilesystem", "/dev/sda1"),
               Event("os.MkdirAll", "/rootfs/boot/efi"),
               Event("syscall.Mount", "/rootfs/boot/efi"),
               Event("createFilesystem", "/dev/sda2")>>
    /\ mounts = {"/rootfs", "/rootfs/boot/efi"}

\* the targets of the calls of syscall.Mount among the first n calls made
MountTargets(n) ==
    {log[k].arg : k \in {j \in 1..n : log[j].op = "syscall.Mount"}}

\* the mount points of the disk, empty ones left out, under the prefix
AllTargets ==
    {prefix \o (IF disk.Partitions[i].MountPoint = "/" THEN ""
                ELSE disk.Partitions[i].MountPoint) :
        i \in {j \in 1..Len(disk.Partitions) :
                  disk.Partitions[j].MountPoint # ""}}

\* C14: mountPartitions returns an error at the first failing step
\* (filesystem creation, directory creation or mount) of any partition: the
\* failing call is the last call it makes, no later partition is formatted
\* or mounted, and what earlier iterations mounted is still mounted when it
\* returns; without a failing call every partition is formatted and every
\* mount point mounted.
C14_MountFailFast ==
    pc = "returned" =>
        LET failAt    == env[1]
            formatted == Len(ArgsOf("createFilesystem"))
            last      == log[Len(log)]
        IN  /\ Failed("mountPartitions") =>
                  /\ failAt # <<>>
                  /\ last.op = failAt[2]
                  /\ formatted = failAt[1]
                  /\ mounts = MountTargets(Len(log) - 1)
                  /\ result.mountPartitions =
                        CASE failAt[2] = "createFilesystem" ->
                                 "mount partitions create fs failed"
                          [] failAt[2] = "os.MkdirAll" ->
                                 "mount partitions create directory failed"
                          [] failAt[2] = "syscall.Mount" ->
                                 "mount partitions mount failed"
            /\ result.mountPartitions = NoErr =>
                  /\ formatted = Len(disk.Partitions)
                  /\ mounts = AllTargets
                  /\ mounts = MountTargets(Len(log))
            /\ (failAt # <<>> /\ result.mountPartitions = NoErr) =>
                  \E k \in 1..Len(log) :
                      /\ log[k].op = "createFilesystem"
                      /\ Len(SelectSeq(SubSeq(log, 1, k),
                                       LAMBDA ev : ev.op = "createFilesystem"))
                            = failAt[1]
                      /\ (k = Len(log) \/ log[k + 1].op = "createFilesystem")

C14_Witness ==
    /\ pc = "returned"
    /\ MountPointsOf(disk.Partitions) = <<"/boot/efi", "/", "/var">>
    /\ env = << <<2, "syscall.Mount">> >>
    /\ result.mountPartitions = "mount partitions mount failed"
    /\ log = <<Event("createFilesystem", "/dev/sda2"),
               Event("os.MkdirAll", "/rootfs"),
               Event("syscall.Mount", "/rootfs"),
               Event("createFilesystem", "/dev/sda1"),
               Event("os.MkdirAll", "/rootfs/boot/efi"),
               Event("syscall.Mount", "/rootfs/boot/efi")>>
    /\ mounts = {"/rootfs"}

\* --------------------------------------- claims on the install executor
\* the position of the first call of op with argument arg, 0 when none
CallIndex(op, arg) ==
    IF \E k \in 1..Len(log) : log[k] = Event(op, arg)
    THEN CHOOSE k \in 1..Len(log) :
            log[k] = Event(op, arg) /\ \A j \in 1..(k - 1) : log[j] # Event(op, arg)
    ELSE 0

\* how many calls of op with argument arg were made
CallCount(op, arg) ==
    Cardinality({k \in 1..Len(log) : log[k] = Event(op, arg)})

\* C15: when install reaches its unmount phase, one unmount is attempted on
\* each of /boot/efi, /proc, /sys, /dev, /tmp and / under the prefix, in that
\* order and each exactly once, so the attempt on the root mount comes after
\* an attempt on every mount made under it; no unmount is attempted earlier.
C15_UnmountOrderRootLast ==
    LET attempts == ArgsOf("syscall.Unmount")
    IN  /\ env.umount = <<>> => attempts = <<>>
        /\ env.umount # <<>> =>
              /\ Len(attempts) = 6
              /\ \A i \in 1..6 : CallCount("syscall.Unmount", attempts[i]) = 1
              /\ attempts[1] = "/rootfs/boot/efi"
              /\ attempts[2] = "/rootfs/proc"
              /\ attempts[3] = "/rootfs/sys"
              /\ attempts[4] = "/rootfs/dev"
              /\ attempts[5] = "/rootfs/tmp"
              /\ attempts[6] = "/rootfs/"
              /\ \A k \in 1..Len(log) :
                    (log[k].op = "syscall.Mount" /\ log[k].arg # "/rootfs") =>
                        LET u == CallIndex("syscall.Unmount", log[k].arg)
                        IN  /\ u > k
                            /\ u < CallIndex("syscall.Unmount", "/rootfs/")

C15_Witness ==
    /\ pc = "done"
    /\ env.umount = <<{}>>
    /\ mounts = {}
    /\ ArgsOf("syscall.Mount") =
          <<"/rootfs", "/rootfs/boot/efi", "/rootfs/proc", "/rootfs/sys",
            "/rootfs/tmp", "/rootfs/dev">>
    /\ result.Install = NoErr

\* C16: in the bind-mount phase of install the mounts of proc, sys, tmpfs on
\* /tmp and /dev are attempted in that order whatever subset of them fails;
\* those that succeeded are in the mount table, install goes on to write the
\* configuration, and no error of install comes from a failed bind mount.
C16_BindMountsBestEffort ==
    env.bind # <<>> =>
        LET c == CallIndex("call", "install")
        IN  /\ Len(log) >= c + 4
            /\ [i \in 1..4 |-> log[c + i]] =
                  <<Event("syscall.Mount", "/rootfs/proc"),
                    Event("syscall.Mount", "/rootfs/sys"),
                    Event("syscall.Mount", "/rootfs/tmp"),
                    Event("syscall.Mount", "/rootfs/dev")>>
            /\ pc = "install.WriteConfig" =>
                  /\ result.install = None
                  /\ Len(log) = c + 4
                  /\ \A i \in 1..4 :
                        (prefix \o installMounts[i] \in mounts)
                            <=> i \notin env.bind[1]
            /\ pc # "install.WriteConfig" =>
                  /\ env.config # <<>>
                  /\ log[c + 5] = Event("os.MkdirAll", "/rootfs/etc/metal")
            /\ Failed("install") =>
                  result.install \in
                      {"writing configuration install.yaml failed",
                       "writing phoneHome.jwt failed",
                       "unable to chdir to prefix",
                       "running install.sh in chroot failed",
                       "unable to chdir to /",
                       "could not read boot-info.yaml",
                       "could not unmarshal boot-info.yaml",
                       "copy failed"}

C16_Witness ==
    /\ pc = "install.RunInstallScript"
    /\ env.bind = <<{1, 2, 3, 4}>>
    /\ mounts = {"/rootfs", "/rootfs/boot/efi"}
    /\ files.installYaml # <<>>
    /\ files.token
    /\ result.install = None

\* C17: when the install script fails to run or exits non-zero, install
\* returns an error and no boot info, the boot-info file is never read, no
\* boot artifact is copied, and Install returns that same error.
C17_ScriptFailureIsFatal ==
    (env.run # <<>> /\ env.run[1].chdirOK /\ ~env.run[1].runOK) =>
        /\ pc = "done"
        /\ log[Len(log)] = Event("cmd.Run", "/install.sh")
        /\ result.install = "running install.sh in chroot failed"
        /\ result.Install = result.install
        /\ info = <<>>
        /\ bootinfo = <<>>
        /\ ArgsOf("ioutil.ReadFile") = <<>>
        /\ ArgsOf("copy") = <<>>
        /\ files.copies = {}

C17_Witness ==
    /\ pc = "done"
    /\ env.run # <<>>
    /\ env.run[1].chdirOK
    /\ ~env.run[1].runOK
    /\ ArgsOf("cmd.Run") = <<"/install.sh">>
    /\ result.Install = "running install.sh in chroot failed"
    /\ bootinfo = <<>>

\* the stages of the install executor, in order
InstallStages ==
    <<"install.BindMounts", "install.WriteConfig", "install.RunInstallScript",
      "install.ReadBootInfo", "install.CopyBootArtifacts", "install.Unmount">>

\* the position of p among the stages, 0 when p is no stage of install
StageIndex(p) ==
    IF \E i \in 1..Len(InstallStages) : InstallStages[i] = p
    THEN CHOOSE i \in 1..Len(InstallStages) : InstallStages[i] = p
    ELSE 0

\* a step moves to the next stage, or out of install; it enters install at
\* the first stage and never comes back
StageStep ==
    pc' # pc =>
        /\ StageIndex(pc') # 0 => StageIndex(pc') = StageIndex(pc) + 1
        /\ StageIndex(pc) # 0 =>
              \/ StageIndex(pc') = StageIndex(pc) + 1
              \/ pc' = "done"
        /\ pc = "done" => FALSE

\* the environment and the assignment let both files be built and written
ConfigWritable ==
    /\ env.config[1].mkdirOK
    /\ device.Cidr # cidrDhcp => (device.Cidr # cidrBadMask /\ ~env.config[1].asnFails)
    /\ env.config[1].writeOK
    /\ env.config[1].tokenOK

ScriptStarted == ArgsOf("os.Chdir") # <<>> \/ ArgsOf("cmd.Run") # <<>>

ScriptAfterConfig ==
    /\ ScriptStarted =>
          /\ env.config # <<>>
          /\ ConfigWritable
          /\ files.installYaml # <<>>
          /\ files.installYaml = config
          /\ files.token
          /\ CallIndex("ioutil.WriteFile", "/rootfs/etc/metal/phoneHome.jwt")
                < CallIndex("os.Chdir", prefix)
          /\ CallIndex("ioutil.WriteFile", "/rootfs/etc/metal/install.yaml")
                < CallIndex("ioutil.WriteFile", "/rootfs/etc/metal/phoneHome.jwt")
          /\ CallIndex("ioutil.WriteFile", "/rootfs/etc/metal/install.yaml") > 0
    /\ (env.config # <<>> /\ ~ConfigWritable) =>
          /\ pc = "done"
          /\ ~ScriptStarted
          /\ result.install \in {"writing configuration install.yaml failed",
                                 "writing phoneHome.jwt failed"}
          /\ result.Install = result.install
          /\ bootinfo = <<>>

\* C18: the install executor moves through BindMounts, WriteConfig,
\* RunInstallScript, ReadBootInfo, CopyBootArtifacts, Unmount in that order
\* and enters no stage twice; the install script is started only after the
\* installer configuration and the token have both been written, and a
\* failure to build or write either one (an unparsable address and a failed
\* AS-number derivation included) makes install return an error without
\* starting the script.
C18_LinearStagesConfigBeforeScript ==
    /\ [][StageStep]_vars
    /\ []ScriptAfterConfig

C18_Witness ==
    /\ pc = "install.ReadBootInfo"
    /\ device.Cidr = cidrNode
    /\ files.installYaml =
          <<[Hostname |-> "node1", SSHPublicKey |-> "key-a\nkey-b",
             IPAddress |-> "10.0.0.5", ASN |-> "167772165"]>>
    /\ files.token
    /\ ArgsOf("cmd.Run") = <<"/install.sh">>

\* C19: when install returns boot info without an error, the kernel and
\* the initrd were both copied before the first unmount was attempted, and
\* the returned paths are /tmp joined with the base name of the paths the
\* script reported (/boot/vml and /boot/ird, or vml and ird/, give /tmp/vml
\* and /tmp/ird); a failed copy of either file makes install return an error
\* and no boot info.
C19_BootArtifactsStaged ==
    /\ result.install = NoErr =>
          /\ env.boot[1].status = "ok"
          /\ env.copy = <<0>>
          /\ bootinfo = <<[Kernel |-> "/tmp/vml", Initrd |-> "/tmp/ird"]>>
          /\ ArgsOf("copy") = <<"/tmp/vml", "/tmp/ird">>
          /\ files.copies = {"/tmp/vml", "/tmp/ird"}
          /\ CallIndex("copy", "/tmp/vml") < CallIndex("copy", "/tmp/ird")
          /\ \A k \in 1..Len(log) :
                log[k].op = "syscall.Unmount" => CallIndex("copy", "/tmp/ird") < k
    /\ (env.copy # <<>> /\ env.copy[1] # 0) =>
          /\ pc = "done"
          /\ result.install = "copy failed"
          /\ result.Install = "copy failed"
          /\ bootinfo = <<>>
          /\ Len(ArgsOf("copy")) = env.copy[1]
    /\ bootinfo # <<>> => result.install = NoErr

C19_Witness ==
    /\ pc = "done"
    /\ result.Install = NoErr
    /\ env.boot[1].Kernel = kernelPath
    /\ env.boot[1].Initrd = initrdPath
    /\ bootinfo = <<[Kernel |-> "/tmp/vml", Initrd |-> "/tmp/ird"]>>
    /\ ArgsOf("syscall.Unmount") # <<>>

\* C20: whenever burn returns success the staged compressed image is
\* absent from the staging path; whenever burn returns an error the staged
\* file is left in place.
C20_StagedFileRemovedOnSuccess ==
    /\ result.burn = NoErr => files.image = <<>>
    /\ Failed("burn") => files.image = <<env.pull[1].imageDigest>>

\* C20 as amended: whenever burn returns success it has attempted, as its
\* last call, one removal of the staged compressed image, and the file is
\* absent unless that removal failed; whenever burn returns an error it has
\* attempted no removal and the staged file is left in place.
C20_StagedFileRemovalAttempted ==
    /\ result.burn = NoErr =>
          /\ CallCount("os.Remove", osImageDestination) = 1
          /\ CallIndex("os.Remove", osImageDestination) =
                CallIndex("archiver.Tar.Read", prefix) + 1
          /\ pc = "install.BindMounts" =>
                log[Len(log)] = Event("os.Remove", osImageDestination)
          /\ env.burn[1].removeOK => files.image = <<>>
          /\ ~env.burn[1].removeOK => files.image = <<env.pull[1].imageDigest>>
    /\ Failed("burn") =>
          /\ CallCount("os.Remove", osImageDestination) = 0
          /\ files.image = <<env.pull[1].imageDigest>>

C20_Witness ==
    /\ pc = "install.BindMounts"
    /\ result.burn = NoErr
    /\ ~env.burn[1].removeOK
    /\ files.image = <<"d1">>
    /\ files.rootfs = "extracted"
    /\ log[Len(log)] = Event("os.Remove", osImageDestination)

====
